---- MODULE Spec2Model ----
(***************************************************************************)
(* TinyCompiler (src/src/main.cpp, second translation unit, lines 291-768):*)
(* Compile = Tokenize -> LispAst::Parse -> LispAst::PrintAst ->            *)
(* TransformLispAstToCppAst -> CppAst::PrintAst.                           *)
(*                                                                         *)
(* Text is a sequence of one-character strings.  Heap objects (AST nodes)  *)
(* are records in a sequence; a node's identity (its address) is its index *)
(* and 0 is nullptr.  A thrown exception unwinds every local: the model    *)
(* goes to pc = "Failed" with `error` holding the exception's message.     *)
(***************************************************************************)
EXTENDS Integers, Sequences, FiniteSets, TLC

VARIABLES
    pc,             \* position in Compile / the function being executed
    error,          \* message of the exception in flight, "" when none
    text,           \* Tokenize: the input text
    i,              \* Tokenize: index of the current character (1-based)
    state,          \* Tokenize: the variant<Looking, InString, InNumber>
    tokens,         \* Tokenize: the token vector; later Compile's `tokens`
    iterations,     \* Tokenize: the value of i at the start of each loop iteration
    tokenIter,      \* Parse: the shared token iterator (1-based; Len+1 = end)
    lastRead,       \* highest token index the parser has dereferenced
    callStack,      \* ParseCallExpression activations: their callExpression
    lispNodes,      \* heap of LispAst nodes
    lispAst,        \* Compile's lispAst (root id, 0 = not returned)
    visitor,        \* the Visitor driving LispAst::Visit
    visitStack,     \* LispAst::Visit activations
    visited,        \* the OnVisit calls made by the current Visit, in order
    m_programNode,  \* Transformer::m_programNode (0 = nullptr)
    m_context,      \* Transformer::m_context: Lisp node -> Cpp node owning the vector
    cppNodes,       \* heap of CppAst nodes
    cppAst,         \* Compile's cppAst (root id, 0 = not returned)
    out             \* std::cout, as a sequence of pieces

vars == <<pc, error, text, i, state, tokens, iterations, tokenIter, lastRead, callStack,
          lispNodes, lispAst, visitor, visitStack, visited, m_programNode,
          m_context, cppNodes, cppAst, out>>

tokVars   == <<text, i, state, tokens, iterations>>
parseVars == <<tokenIter, lastRead, callStack, lispNodes, lispAst>>
visitVars == <<visitor, visitStack, visited>>
xformVars == <<m_programNode, m_context, cppNodes, cppAst>>

(***************************************************************************)
(* Bounds of the checked instances.                                        *)
(***************************************************************************)
MaxTextLen == 6
MaxTokens == 8

\* The characters input texts are drawn from: one of each class the
\* tokenizer distinguishes, and one it rejects.
Alphabet == {" ", "(", ")", "a", "1", "@"}

\* The tokens Parse's inputs are drawn from.
TokenAlphabet ==
    { [type |-> "Paren",  value |-> <<"(">>],
      [type |-> "Paren",  value |-> <<")">>],
      [type |-> "Name",   value |-> <<"a">>],
      [type |-> "Number", value |-> <<"1">>],
      [type |-> "Number", value |-> <<"2">>] }

\* s is a sequence over S of length at most n.
IsSeqUpTo(s, S, n) == \E k \in 0..n : s \in [1..k -> S]

(***************************************************************************)
(* Character classification (<cctype>, "C" locale).                        *)
(***************************************************************************)
Letters == {"a","b","c","d","e","f","g","h","i","j","k","l","m","n","o","p","q",
            "r","s","t","u","v","w","x","y","z",
            "A","B","C","D","E","F","G","H","I","J","K","L","M","N","O","P","Q",
            "R","S","T","U","V","W","X","Y","Z"}
DigitChars == <<"0","1","2","3","4","5","6","7","8","9">>
Digits == { DigitChars[k] : k \in 1..10 }

isalpha(c) == c \in Letters
isdigit(c) == c \in Digits
IsWhitespace(c) == c = " " \/ c = "\t" \/ c = "\n"
IsParen(c) == c = "(" \/ c = ")"

Token(type, value) == [type |-> type, value |-> value]

Looking  == [kind |-> "Looking",  value |-> <<>>]
InString == [kind |-> "InString", value |-> <<>>]
InNumber == [kind |-> "InNumber", value |-> <<>>]

\* An exception leaves the function: its locals (and those of the
\* activations it unwinds) are destroyed, and nothing is returned.
Throw(msg) ==
    /\ pc' = "Failed"
    /\ error' = msg
    /\ callStack' = <<>>
    /\ lispNodes' = <<>>
    /\ lispAst' = 0

(***************************************************************************)
(* Tokenize: one action per iteration of the while loop, by state.         *)
(***************************************************************************)
LookingStep ==
    /\ pc = "Tokenize" /\ i <= Len(text) /\ state.kind = "Looking"
    /\ LET c == text[i] IN
       IF IsWhitespace(c)
         THEN /\ i' = i + 1
              /\ UNCHANGED <<pc, error, state, tokens, callStack, lispNodes, lispAst>>
       ELSE IF IsParen(c)
         THEN /\ tokens' = Append(tokens, Token("Paren", <<c>>))
              /\ i' = i + 1
              /\ UNCHANGED <<pc, error, state, callStack, lispNodes, lispAst>>
       ELSE IF isalpha(c)
         THEN /\ state' = InString
              /\ UNCHANGED <<pc, error, i, tokens, callStack, lispNodes, lispAst>>
       ELSE IF isdigit(c)
         THEN /\ state' = InNumber
              /\ UNCHANGED <<pc, error, i, tokens, callStack, lispNodes, lispAst>>
       ELSE /\ Throw("Unexpected character")
            /\ tokens' = <<>>
            /\ UNCHANGED <<i, state>>
    /\ iterations' = Append(iterations, i)
    /\ UNCHANGED <<text, tokenIter, lastRead, visitVars, xformVars, out>>

\* InStringStep with the delimiter consumed as the Name token is emitted.
InStringStep_ConsumesDelimiter ==
    /\ pc = "Tokenize" /\ i <= Len(text) /\ state.kind = "InString"
    /\ LET c == text[i] IN
       IF isalpha(c)
         THEN /\ state' = [state EXCEPT !.value = Append(@, c)]
              /\ UNCHANGED tokens
         ELSE /\ tokens' = Append(tokens, Token("Name", state.value))
              /\ state' = Looking
    /\ i' = i + 1
    /\ iterations' = Append(iterations, i)
    /\ UNCHANGED <<pc, error, text, parseVars, visitVars, xformVars, out>>

\* InStringStep that emits the Name token and stays in InString.
InStringStep_StaysInString ==
    /\ pc = "Tokenize" /\ i <= Len(text) /\ state.kind = "InString"
    /\ LET c == text[i] IN
       IF isalpha(c)
         THEN /\ state' = [state EXCEPT !.value = Append(@, c)]
              /\ i' = i + 1
              /\ UNCHANGED tokens
         ELSE /\ tokens' = Append(tokens, Token("Name", state.value))
              /\ UNCHANGED <<i, state>>
    /\ iterations' = Append(iterations, i)
    /\ UNCHANGED <<pc, error, text, parseVars, visitVars, xformVars, out>>

InStringStep ==
    /\ pc = "Tokenize" /\ i <= Len(text) /\ state.kind = "InString"
    /\ LET c == text[i] IN
       IF isalpha(c)
         THEN /\ state' = [state EXCEPT !.value = Append(@, c)]
              /\ i' = i + 1
              /\ UNCHANGED tokens
         ELSE /\ tokens' = Append(tokens, Token("Name", state.value))
              /\ state' = Looking
              /\ UNCHANGED i
    /\ iterations' = Append(iterations, i)
    /\ UNCHANGED <<pc, error, text, parseVars, visitVars, xformVars, out>>

\* InNumberStep with the Number token emitted once per digit instead of
\* once per run.
InNumberStep_TokenPerDigit ==
    /\ pc = "Tokenize" /\ i <= Len(text) /\ state.kind = "InNumber"
    /\ LET c == text[i] IN
       IF isdigit(c)
         THEN /\ tokens' = Append(tokens, Token("Number", <<c>>))
              /\ i' = i + 1
              /\ UNCHANGED state
         ELSE /\ state' = Looking
              /\ UNCHANGED <<i, tokens>>
    /\ iterations' = Append(iterations, i)
    /\ UNCHANGED <<pc, error, text, parseVars, visitVars, xformVars, out>>

InNumberStep ==
    /\ pc = "Tokenize" /\ i <= Len(text) /\ state.kind = "InNumber"
    /\ LET c == text[i] IN
       IF isdigit(c)
         THEN /\ state' = [state EXCEPT !.value = Append(@, c)]
              /\ i' = i + 1
              /\ UNCHANGED tokens
         ELSE /\ tokens' = Append(tokens, Token("Number", state.value))
              /\ state' = Looking
              /\ UNCHANGED i
    /\ iterations' = Append(iterations, i)
    /\ UNCHANGED <<pc, error, text, parseVars, visitVars, xformVars, out>>

\* The loop ends when i reaches text.size(); `return tokens;` follows at once.
TokenizeReturn ==
    /\ pc = "Tokenize" /\ i > Len(text)
    /\ pc' = "Parse"
    /\ UNCHANGED <<error, tokVars, parseVars, visitVars, xformVars, out>>

TokenizeNext == LookingStep \/ InStringStep \/ InNumberStep \/ TokenizeReturn

(***************************************************************************)
(* LispAst nodes and LispAst::Parse.                                       *)
(***************************************************************************)
LispProgramNode == [type |-> "ProgramNode", name |-> <<>>, value |-> 0, kids |-> <<>>]
LispCallExpressionNode(name) ==
    [type |-> "CallExpressionNode", name |-> name, value |-> 0, kids |-> <<>>]
LispNumberLiteralNode(v) ==
    [type |-> "NumberLiteralNode", name |-> <<>>, value |-> v, kids |-> <<>>]

Max(a, b) == IF a >= b THEN a ELSE b

DigitValue(c) == (CHOOSE k \in 1..10 : DigitChars[k] = c) - 1

\* std::stoi on a digit string: its decimal value.
RECURSIVE stoi(_)
stoi(s) ==
    IF s = <<>> THEN 0
    ELSE 10 * stoi(SubSeq(s, 1, Len(s) - 1)) + DigitValue(s[Len(s)])

\* What Parse and ParseCallExpression throw.
ParseErrors ==
    { "Program must start with '('",
      "Expecting function name immediately after '('",
      "Unexpected name token in argument list",
      "Missing ')' to end call expression" }

\* Parse, up to its loop: the ProgramNode is made, tokenIter = begin(tokens).
ParseBegin ==
    /\ pc = "Parse"
    /\ lispNodes' = <<LispProgramNode>>
    /\ tokenIter' = 1
    /\ lastRead' = 0
    /\ callStack' = <<>>
    /\ pc' = "ParseLoop"
    /\ UNCHANGED <<error, tokVars, lispAst, visitVars, xformVars, out>>

\* Parse's loop, tokenIter != tokenEnd: a top-level construct.
ParseTopLevel ==
    /\ pc = "ParseLoop" /\ tokenIter <= Len(tokens)
    /\ lastRead' = Max(lastRead, tokenIter)
    /\ LET firstToken == tokens[tokenIter] IN
       IF ~(firstToken.type = "Paren" /\ firstToken.value = <<"(">>)
         THEN /\ Throw("Program must start with '('")
              /\ UNCHANGED <<tokens, tokenIter>>
         ELSE /\ tokenIter' = tokenIter + 1
              /\ pc' = "ParseCallExpression"
              /\ UNCHANGED <<error, tokens, callStack, lispNodes, lispAst>>
    /\ UNCHANGED <<text, i, state, iterations, visitVars, xformVars, out>>

\* Parse's loop ends: return std::move(programNode).
ParseReturn ==
    /\ pc = "ParseLoop" /\ tokenIter > Len(tokens)
    /\ lispAst' = 1
    /\ pc' = "PrintLispAst"
    /\ UNCHANGED <<error, tokVars, tokenIter, lastRead, callStack, lispNodes,
                   visitVars, xformVars, out>>

\* ParseCallExpression up to its loop, entered with a token to read.
ParseCallExpressionEntry ==
    /\ pc = "ParseCallExpression" /\ tokenIter <= Len(tokens)
    /\ lastRead' = Max(lastRead, tokenIter)
    /\ LET firstToken == tokens[tokenIter] IN
       IF firstToken.type # "Name"
         THEN /\ Throw("Expecting function name immediately after '('")
              /\ UNCHANGED <<tokens, tokenIter>>
         ELSE /\ lispNodes' = Append(lispNodes, LispCallExpressionNode(firstToken.value))
              /\ callStack' = Append(callStack, Len(lispNodes) + 1)
              /\ tokenIter' = tokenIter + 1
              /\ pc' = "CallLoop"
              /\ UNCHANGED <<error, tokens, lispAst>>
    /\ UNCHANGED <<text, i, state, iterations, visitVars, xformVars, out>>

\* ParseCallExpression entered with iter == endIter: `*iter` dereferences the
\* end iterator, which is undefined.  The read may yield a type that is not
\* Name (a clean throw), or anything else: any exception of the parser, or
\* an execution the language does not define (pc = "Undefined").
ParseCallExpressionAtEnd ==
    /\ pc = "ParseCallExpression" /\ tokenIter > Len(tokens)
    /\ lastRead' = Max(lastRead, tokenIter)
    /\ \E outcome \in ParseErrors \cup {"undefined"} :
         IF outcome = "undefined"
           THEN /\ pc' = "Undefined"
                /\ UNCHANGED <<error, tokens, callStack, lispNodes, lispAst>>
           ELSE Throw(outcome) /\ UNCHANGED tokens
    /\ UNCHANGED <<text, i, state, iterations, tokenIter, visitVars, xformVars, out>>

\* The loop of ParseCallExpression ends with iter == endIter.
ParseMissingParen ==
    /\ pc = "CallLoop" /\ tokenIter > Len(tokens)
    /\ Throw("Missing ')' to end call expression")
    /\ UNCHANGED <<tokVars, tokenIter, lastRead, visitVars, xformVars, out>>

\* case Paren, value ")": the call is complete and returned; the caller
\* (ParseCallExpression or Parse) emplaces it at the back of its vector.
ParseCloseParen ==
    /\ pc = "CallLoop" /\ tokenIter <= Len(tokens)
    /\ tokens[tokenIter].type = "Paren" /\ tokens[tokenIter].value = <<")">>
    /\ lastRead' = Max(lastRead, tokenIter)
    /\ tokenIter' = tokenIter + 1
    /\ LET callExpression == callStack[Len(callStack)]
           callers == SubSeq(callStack, 1, Len(callStack) - 1)
           owner == IF callers = <<>> THEN 1 ELSE callers[Len(callers)]
       IN /\ callStack' = callers
          /\ lispNodes' = [lispNodes EXCEPT ![owner].kids = Append(@, callExpression)]
          /\ pc' = IF callers = <<>> THEN "ParseLoop" ELSE "CallLoop"
    /\ UNCHANGED <<error, tokVars, lispAst, visitVars, xformVars, out>>

\* case Paren, any other value: a nested call expression.
ParseOpenParen ==
    /\ pc = "CallLoop" /\ tokenIter <= Len(tokens)
    /\ tokens[tokenIter].type = "Paren" /\ tokens[tokenIter].value # <<")">>
    /\ lastRead' = Max(lastRead, tokenIter)
    /\ tokenIter' = tokenIter + 1
    /\ pc' = "ParseCallExpression"
    /\ UNCHANGED <<error, tokVars, callStack, lispNodes, lispAst, visitVars,
                   xformVars, out>>

\* case Name, taken as an argument and skipped.
ParseNameArg_Accepts ==
    /\ pc = "CallLoop" /\ tokenIter <= Len(tokens)
    /\ tokens[tokenIter].type = "Name"
    /\ lastRead' = Max(lastRead, tokenIter)
    /\ tokenIter' = tokenIter + 1
    /\ UNCHANGED <<pc, error, tokVars, callStack, lispNodes, lispAst, visitVars,
                   xformVars, out>>

\* case Name.
ParseNameArg ==
    /\ pc = "CallLoop" /\ tokenIter <= Len(tokens)
    /\ tokens[tokenIter].type = "Name"
    /\ lastRead' = Max(lastRead, tokenIter)
    /\ Throw("Unexpected name token in argument list")
    /\ UNCHANGED <<tokVars, tokenIter, visitVars, xformVars, out>>

\* case Number.
ParseNumberArg ==
    /\ pc = "CallLoop" /\ tokenIter <= Len(tokens)
    /\ tokens[tokenIter].type = "Number"
    /\ lastRead' = Max(lastRead, tokenIter)
    /\ LET callExpression == callStack[Len(callStack)]
           literal == Len(lispNodes) + 1
       IN lispNodes' = [Append(lispNodes, LispNumberLiteralNode(stoi(tokens[tokenIter].value)))
                          EXCEPT ![callExpression].kids = Append(@, literal)]
    /\ tokenIter' = tokenIter + 1
    /\ UNCHANGED <<pc, error, tokVars, callStack, lispAst, visitVars, xformVars, out>>

ParseNext ==
    \/ ParseBegin \/ ParseTopLevel \/ ParseReturn
    \/ ParseCallExpressionEntry \/ ParseCallExpressionAtEnd
    \/ ParseMissingParen \/ ParseCloseParen \/ ParseOpenParen
    \/ ParseNameArg \/ ParseNumberArg

(***************************************************************************)
(* LispAst::Visit, one activation per frame of visitStack:                 *)
(* idx = 0 before the OnVisit call, then the index of the next child.      *)
(***************************************************************************)
Frame(node, parent, depth) == [node |-> node, parent |-> parent, depth |-> depth, idx |-> 0]

Top(stack) == stack[Len(stack)]
Pop(stack) == SubSeq(stack, 1, Len(stack) - 1)

\* A failed assert aborts the process.
Abort ==
    /\ pc' = "Aborted"
    /\ UNCHANGED <<xformVars, out>>

\* Indent(depth): two spaces, depth times.
Indent(depth) == [k \in 1..depth |-> "  "]

\* operator<< on an int: its decimal digits.
RECURSIVE ItoA(_)
ItoA(n) ==
    IF n < 10 THEN <<DigitChars[n + 1]>>
    ELSE ItoA(n \div 10) \o <<DigitChars[(n % 10) + 1]>>

(* PrintAST : Visitor *)
PrintAST_OnVisitProgram(node, depth) ==
    /\ out' = out \o <<"[Program]", "\n">>
    /\ UNCHANGED <<pc, xformVars>>

PrintAST_OnVisitCallExpression(node, parent, depth) ==
    /\ out' = out \o Indent(depth) \o <<"[CallExpression] name: ">>
                  \o lispNodes[node].name \o <<"\n">>
    /\ UNCHANGED <<pc, xformVars>>

PrintAST_OnVisitNumberLiteral(node, parent, depth) ==
    /\ out' = out \o Indent(depth) \o <<"[NumberLiteral] value: ">>
                  \o ItoA(lispNodes[node].value) \o <<"\n">>
    /\ UNCHANGED <<pc, xformVars>>

(* CppAst nodes *)
CppNode(type) ==
    [type |-> type, name |-> <<>>, value |-> 0, callee |-> 0, expression |-> 0, kids |-> <<>>]
CppProgramNode == CppNode("ProgramNode")
CppIdentifierNode(name) == [CppNode("IdentifierNode") EXCEPT !.name = name]
CppNumberLiteralNode(v) == [CppNode("NumberLiteralNode") EXCEPT !.value = v]
CppCallExpressionNode(callee) == [CppNode("CallExpressionNode") EXCEPT !.callee = callee]
CppExpressionStatementNode(e) == [CppNode("ExpressionStatementNode") EXCEPT !.expression = e]

(* Transformer : LispAst::Visitor *)
\* emplace that registers nothing.
Emplace_Skips(map, key, val) == map

\* emplace that replaces the whole map by the new entry.
Emplace_Forgets(map, key, val) == (key :> val)

\* std::map::emplace: inserts unless the key is present.
Emplace(map, key, val) == IF key \in DOMAIN map THEN map ELSE map @@ (key :> val)

\* GetContextVector's assert: the find succeeded.
ContextFound(context, lispNode) == lispNode \in DOMAIN context

\* The test of the lambda in OnVisit(CallExpressionNode): the parent is not a
\* LispAst::CallExpressionNode.
WrapsInStatement_Inverted(parent) == lispNodes[parent].type = "CallExpressionNode"

WrapsInStatement(parent) == lispNodes[parent].type # "CallExpressionNode"

\* std::vector::push_back on the vector of Cpp node `owner`.
PushBack_Overwrites(nodes, owner, newNode) == [nodes EXCEPT ![owner].kids = <<newNode>>]

PushBack_AtFront(nodes, owner, newNode) == [nodes EXCEPT ![owner].kids = <<newNode>> \o @]

PushBack(nodes, owner, newNode) == [nodes EXCEPT ![owner].kids = Append(@, newNode)]

Transformer_OnVisitProgram(node, depth) ==
    IF m_programNode # 0
      THEN Abort
      ELSE LET cppProgramNode == Len(cppNodes) + 1 IN
           /\ cppNodes' = Append(cppNodes, CppProgramNode)
           /\ m_context' = Emplace(m_context, node, cppProgramNode)
           /\ m_programNode' = cppProgramNode
           /\ UNCHANGED <<pc, cppAst, out>>

Transformer_OnVisitCallExpression(node, parent, depth) ==
    IF m_programNode = 0
      THEN Abort
      ELSE LET callExpressionNode == Len(cppNodes) + 1
               callee == Len(cppNodes) + 2
               expressionStatementNode == Len(cppNodes) + 3
               wrap == WrapsInStatement(parent)
               context == Emplace(m_context, node, callExpressionNode)
               created ==
                   cppNodes \o <<CppCallExpressionNode(callee),
                                 CppIdentifierNode(lispNodes[node].name)>>
                            \o (IF wrap
                                  THEN <<CppExpressionStatementNode(callExpressionNode)>>
                                  ELSE <<>>)
               newNode == IF wrap THEN expressionStatementNode ELSE callExpressionNode
           IN IF ~ContextFound(context, parent)
                THEN Abort
                ELSE /\ cppNodes' = PushBack(created, context[parent], newNode)
                     /\ m_context' = context
                     /\ UNCHANGED <<pc, m_programNode, cppAst, out>>

Transformer_OnVisitNumberLiteral(node, parent, depth) ==
    IF m_programNode = 0 \/ ~ContextFound(m_context, parent)
      THEN Abort
      ELSE LET newNode == Len(cppNodes) + 1 IN
           /\ cppNodes' = PushBack(Append(cppNodes, CppNumberLiteralNode(lispNodes[node].value)),
                                   m_context[parent], newNode)
           /\ UNCHANGED <<pc, m_programNode, m_context, cppAst, out>>

(* virtual dispatch on the visitor *)
OnVisitProgram(node, depth) ==
    IF visitor = "PrintAST" THEN PrintAST_OnVisitProgram(node, depth)
    ELSE Transformer_OnVisitProgram(node, depth)

OnVisitCallExpression(node, parent, depth) ==
    IF visitor = "PrintAST" THEN PrintAST_OnVisitCallExpression(node, parent, depth)
    ELSE Transformer_OnVisitCallExpression(node, parent, depth)

OnVisitNumberLiteral(node, parent, depth) ==
    IF visitor = "PrintAST" THEN PrintAST_OnVisitNumberLiteral(node, parent, depth)
    ELSE Transformer_OnVisitNumberLiteral(node, parent, depth)

Called(f) == [node |-> f.node, parent |-> f.parent, depth |-> f.depth]

\* Visit, first branch: a ProgramNode.
VisitProgramNode ==
    /\ pc = "Visit" /\ visitStack # <<>>
    /\ LET f == Top(visitStack) IN
       /\ f.idx = 0 /\ lispNodes[f.node].type = "ProgramNode"
       /\ IF f.parent # 0
            THEN Abort /\ UNCHANGED <<visitStack, visited>>
            ELSE /\ OnVisitProgram(f.node, f.depth)
                 /\ visited' = Append(visited, Called(f))
                 /\ visitStack' = [visitStack EXCEPT ![Len(visitStack)].idx = 1]
    /\ UNCHANGED <<error, tokVars, parseVars, visitor>>

\* Visit, second branch: a CallExpressionNode.
VisitCallExpressionNode ==
    /\ pc = "Visit" /\ visitStack # <<>>
    /\ LET f == Top(visitStack) IN
       /\ f.idx = 0 /\ lispNodes[f.node].type = "CallExpressionNode"
       /\ OnVisitCallExpression(f.node, f.parent, f.depth)
       /\ visited' = Append(visited, Called(f))
       /\ visitStack' = [visitStack EXCEPT ![Len(visitStack)].idx = 1]
    /\ UNCHANGED <<error, tokVars, parseVars, visitor>>

\* Visit, third branch: a NumberLiteralNode; the activation returns at once.
VisitNumberLiteralNode ==
    /\ pc = "Visit" /\ visitStack # <<>>
    /\ LET f == Top(visitStack) IN
       /\ f.idx = 0 /\ lispNodes[f.node].type = "NumberLiteralNode"
       /\ OnVisitNumberLiteral(f.node, f.parent, f.depth)
       /\ visited' = Append(visited, Called(f))
       /\ visitStack' = Pop(visitStack)
    /\ UNCHANGED <<error, tokVars, parseVars, visitor>>

\* The range-for running from the back of the vector.
NextChild_Reversed(f) ==
    Frame(lispNodes[f.node].kids[Len(lispNodes[f.node].kids) + 1 - f.idx], f.node, f.depth + 1)

\* The range-for over body / params: the next child, at depth + 1.
NextChild(f) == Frame(lispNodes[f.node].kids[f.idx], f.node, f.depth + 1)

VisitChild ==
    /\ pc = "Visit" /\ visitStack # <<>>
    /\ LET f == Top(visitStack) IN
       /\ f.idx >= 1 /\ f.idx <= Len(lispNodes[f.node].kids)
       /\ visitStack' = Append([visitStack EXCEPT ![Len(visitStack)].idx = f.idx + 1],
                               NextChild(f))
    /\ UNCHANGED <<pc, error, tokVars, parseVars, visitor, visited, xformVars, out>>

\* The loop over the children is over: the activation returns.  The
\* outermost one returns to PrintAst (and Compile prints '\n') or to
\* TransformLispAstToCppAst.
VisitReturn ==
    /\ pc = "Visit" /\ visitStack # <<>>
    /\ LET f == Top(visitStack) IN
       /\ f.idx >= 1 /\ f.idx > Len(lispNodes[f.node].kids)
       /\ visitStack' = Pop(visitStack)
       /\ IF Len(visitStack) > 1
            THEN UNCHANGED <<pc, out>>
            ELSE IF visitor = "PrintAST"
                   THEN pc' = "Transform" /\ out' = out \o <<"\n">>
                   ELSE pc' = "TransformReturn" /\ UNCHANGED out
    /\ UNCHANGED <<error, tokVars, parseVars, visitor, visited, xformVars>>

VisitNext ==
    \/ VisitProgramNode \/ VisitCallExpressionNode \/ VisitNumberLiteralNode
    \/ VisitChild \/ VisitReturn

(***************************************************************************)
(* CppAst::PrintAst: the lines it writes for the subtree at rootNode.      *)
(***************************************************************************)
RECURSIVE CppPrintAst(_, _, _)
RECURSIVE CppPrintAll(_, _, _)
CppPrintAll(nodes, ids, depth) ==
    IF ids = <<>> THEN <<>>
    ELSE CppPrintAst(nodes, Head(ids), depth) \o CppPrintAll(nodes, Tail(ids), depth)

CppPrintAst(nodes, rootNode, depth) ==
    LET node == nodes[rootNode] IN
    IF node.type = "ProgramNode" THEN
        Indent(depth) \o <<"[Program]", "\n">> \o
        Indent(depth) \o <<" Body:", "\n">> \o
        CppPrintAll(nodes, node.kids, depth + 1)
    ELSE IF node.type = "ExpressionStatementNode" THEN
        Indent(depth) \o <<"[ExpressionStatement]", "\n">> \o
        Indent(depth) \o <<" Expression:", "\n">> \o
        CppPrintAst(nodes, node.expression, depth + 1)
    ELSE IF node.type = "CallExpressionNode" THEN
        Indent(depth) \o <<"[CallExpression]", "\n">> \o
        Indent(depth) \o <<" Callee:", "\n">> \o
        CppPrintAst(nodes, node.callee, depth + 1) \o
        Indent(depth) \o <<" Params:", "\n">> \o
        CppPrintAll(nodes, node.kids, depth + 1)
    ELSE IF node.type = "IdentifierNode" THEN
        Indent(depth) \o <<"[Identifier] name: ">> \o node.name \o <<"\n">>
    ELSE
        Indent(depth) \o <<"[NumberLiteralNode] value: ">> \o ItoA(node.value) \o <<"\n">>

(***************************************************************************)
(* Compile, after Parse has returned.                                      *)
(***************************************************************************)
\* std::cout << "Lisp AST:\n"; LispAst::PrintAst(lispAst) starts its Visit.
PrintLispAstBegin ==
    /\ pc = "PrintLispAst"
    /\ out' = out \o <<"Lisp AST:", "\n">>
    /\ visitor' = "PrintAST"
    /\ visitStack' = <<Frame(lispAst, 0, 0)>>
    /\ visited' = <<>>
    /\ pc' = "Visit"
    /\ UNCHANGED <<error, tokVars, parseVars, xformVars>>

\* TransformLispAstToCppAst: a fresh Transformer, and its Visit starts.
TransformBegin ==
    /\ pc = "Transform"
    /\ visitor' = "Transformer"
    /\ m_programNode' = 0
    /\ m_context' = <<>>
    /\ visitStack' = <<Frame(lispAst, 0, 0)>>
    /\ visited' = <<>>
    /\ pc' = "Visit"
    /\ UNCHANGED <<error, tokVars, parseVars, cppNodes, cppAst, out>>

\* return std::move(transformer.m_programNode); the Transformer is destroyed.
TransformReturn ==
    /\ pc = "TransformReturn"
    /\ cppAst' = m_programNode
    /\ m_programNode' = 0
    /\ m_context' = <<>>
    /\ pc' = "PrintCppAst"
    /\ UNCHANGED <<error, tokVars, parseVars, visitVars, cppNodes, out>>

\* std::cout << "Cpp AST:\n"; CppAst::PrintAst(cppAst); std::cout << '\n';
\* and Compile returns.
PrintCppAst ==
    /\ pc = "PrintCppAst"
    /\ out' = out \o <<"Cpp AST:", "\n">> \o CppPrintAst(cppNodes, cppAst, 0) \o <<"\n">>
    /\ pc' = "Done"
    /\ UNCHANGED <<error, tokVars, parseVars, visitVars, xformVars>>

CompileNext == PrintLispAstBegin \/ TransformBegin \/ TransformReturn \/ PrintCppAst

(***************************************************************************)
(* Specifications.                                                         *)
(***************************************************************************)
Idle ==
    /\ error = ""
    /\ i = 1 /\ state = Looking /\ iterations = <<>>
    /\ tokenIter = 1 /\ lastRead = 0 /\ callStack = <<>>
    /\ lispNodes = <<>> /\ lispAst = 0
    /\ visitor = "none" /\ visitStack = <<>> /\ visited = <<>>
    /\ m_programNode = 0 /\ m_context = <<>> /\ cppNodes = <<>> /\ cppAst = 0
    /\ out = <<>>

\* Compile(program) is called: Tokenize starts on any text up to MaxTextLen.
Init ==
    /\ pc = "Tokenize"
    /\ IsSeqUpTo(text, Alphabet, MaxTextLen)
    /\ tokens = <<>>
    /\ Idle

Next == TokenizeNext \/ ParseNext \/ VisitNext \/ CompileNext

Spec == Init /\ [][Next]_vars

\* LispAst::Parse is called on any token vector up to MaxTokens; the rest of
\* Compile follows.
InitParse ==
    /\ pc = "Parse"
    /\ text = <<>>
    /\ IsSeqUpTo(tokens, TokenAlphabet, MaxTokens)
    /\ Idle

NextParse == ParseNext \/ VisitNext \/ CompileNext

SpecParse == InitParse /\ [][NextParse]_vars

(***************************************************************************)
(* Properties of Tokenize (checked under Spec).                            *)
(***************************************************************************)
\* Tokenize has returned its tokens to Compile.
TokenizeReturned == pc = "Parse"

IsLetterAt(t, k) == k >= 1 /\ k <= Len(t) /\ isalpha(t[k])
IsDigitAt(t, k) == k >= 1 /\ k <= Len(t) /\ isdigit(t[k])

\* The maximal run of letters (of digits) that ends the text.
RECURSIVE TrailingLetters(_)
TrailingLetters(t) ==
    IF IsLetterAt(t, Len(t))
      THEN Append(TrailingLetters(SubSeq(t, 1, Len(t) - 1)), t[Len(t)])
      ELSE <<>>
RECURSIVE TrailingDigits(_)
TrailingDigits(t) ==
    IF IsDigitAt(t, Len(t))
      THEN Append(TrailingDigits(SubSeq(t, 1, Len(t) - 1)), t[Len(t)])
      ELSE <<>>

\* C1: when the input ends in a letter (a digit), the token sequence Tokenize
\* returns ends with a Name (Number) token whose text is the maximal trailing
\* letter-run (digit-run) of the input.
C1_FlushesPendingToken ==
    TokenizeReturned =>
        /\ IsLetterAt(text, Len(text)) =>
               /\ tokens # <<>>
               /\ tokens[Len(tokens)] = Token("Name", TrailingLetters(text))
        /\ IsDigitAt(text, Len(text)) =>
               /\ tokens # <<>>
               /\ tokens[Len(tokens)] = Token("Number", TrailingDigits(text))

\* A character that is none of whitespace, parenthesis, letter, digit.
IsUnexpected(c) == ~(IsWhitespace(c) \/ IsParen(c) \/ isalpha(c) \/ isdigit(c))
HasUnexpected(t) == \E k \in 1..Len(t) : IsUnexpected(t[k])

\* C3: once Tokenize has ended, it has thrown "Unexpected character" if and
\* only if the text holds a character that is none of whitespace, parenthesis,
\* letter or digit, wherever it stands; and then no tokens are returned.
C3_LexErrorIffUnexpectedCharacter ==
    pc # "Tokenize" =>
        /\ (error = "Unexpected character") <=> HasUnexpected(text)
        /\ error = "Unexpected character" =>
               pc = "Failed" /\ tokens = <<>> /\ lispAst = 0 /\ cppAst = 0

\* Tokenize has thrown on a character that directly follows a letter-run.
C3_Witness ==
    /\ pc = "Failed" /\ error = "Unexpected character"
    /\ i > 1 /\ IsUnexpected(text[i]) /\ IsLetterAt(text, i - 1)

\* The grammar  Program := CallExpression*,  CallExpression := '(' Name
\* Argument* ')',  Argument := Number | CallExpression,  read on the
\* characters: a Name is a maximal letter-run, a Number a maximal digit-run,
\* whitespace separates.  depth counts the open calls; expectName holds
\* right after a '('.
RECURSIVE Derives(_, _, _, _)
Derives(t, k, depth, expectName) ==
    IF k > Len(t) THEN depth = 0 /\ ~expectName
    ELSE LET c == t[k] IN
         IF IsWhitespace(c) THEN Derives(t, k + 1, depth, expectName)
         ELSE IF c = "(" THEN ~expectName /\ Derives(t, k + 1, depth + 1, TRUE)
         ELSE IF c = ")" THEN ~expectName /\ depth > 0 /\ Derives(t, k + 1, depth - 1, FALSE)
         ELSE IF isalpha(c) THEN
             IF IsLetterAt(t, k - 1) THEN Derives(t, k + 1, depth, expectName)
             ELSE expectName /\ Derives(t, k + 1, depth, FALSE)
         ELSE IF isdigit(c) THEN
             IF IsDigitAt(t, k - 1) THEN Derives(t, k + 1, depth, expectName)
             ELSE ~expectName /\ depth > 0 /\ Derives(t, k + 1, depth, expectName)
         ELSE FALSE

ValidProgramText(t) == Derives(t, 1, 0, FALSE)

ParenCount(t) == Cardinality({ k \in 1..Len(t) : IsParen(t[k]) })
LetterRunCount(t) ==
    Cardinality({ k \in 1..Len(t) : IsLetterAt(t, k) /\ ~IsLetterAt(t, k - 1) })
DigitRunCount(t) ==
    Cardinality({ k \in 1..Len(t) : IsDigitAt(t, k) /\ ~IsDigitAt(t, k - 1) })

\* C6: for a syntactically valid program text, Tokenize returns as many
\* tokens as the text has parentheses, maximal letter-runs and maximal
\* digit-runs together.
C6_TokenCount ==
    (TokenizeReturned /\ ValidProgramText(text)) =>
        Len(tokens) = ParenCount(text) + LetterRunCount(text) + DigitRunCount(text)

\* Tokenize has returned on a valid program in which a digit-run directly
\* follows a letter-run, and which holds whitespace.
C6_Witness ==
    /\ TokenizeReturned /\ ValidProgramText(text)
    /\ \E k \in 1..Len(text) : IsLetterAt(text, k - 1) /\ IsDigitAt(text, k)
    /\ \E k \in 1..Len(text) : IsWhitespace(text[k])

(***************************************************************************)
(* Properties of LispAst::Parse (checked under SpecParse).                 *)
(***************************************************************************)
\* Parse has ended, without returning, with the token iterator at the end:
\* the tokens ran out inside a call expression (every other failure of
\* Parse happens at a token, and leaves the iterator on it).
RanOutInsideCall == pc \in {"Failed", "Undefined"} /\ tokenIter > Len(tokens)

\* C2: when the tokens run out inside a call expression, at any depth and
\* also right after a '(', Parse throws "Missing ')' to end call expression",
\* returns no tree, and has read no token past the end of the sequence.
C2_MissingParenWhenTokensRunOut ==
    RanOutInsideCall =>
        /\ pc = "Failed"
        /\ error = "Missing ')' to end call expression"
        /\ lispAst = 0
        /\ lastRead <= Len(tokens)

\* The parser is inside a call expression, after its callee name, at a Name
\* token.
AtNameArgument ==
    pc = "CallLoop" /\ tokenIter <= Len(tokens) /\ tokens[tokenIter].type = "Name"

\* C7: a Name token in argument position makes Parse throw "Unexpected name
\* token in argument list" at that token: no tree is returned, no later token
\* is read, and nothing happens after the failure.
C7_NameArgumentFails ==
    [][ /\ AtNameArgument =>
              /\ pc' = "Failed"
              /\ error' = "Unexpected name token in argument list"
              /\ lispAst' = 0 /\ lispNodes' = <<>>
              /\ tokenIter' = tokenIter /\ lastRead' = tokenIter
        /\ pc = "Failed" => UNCHANGED vars ]_vars

\* Parse has failed on a Name argument of a nested call, with tokens left
\* unread behind it.
C7_Witness ==
    /\ pc = "Failed" /\ error = "Unexpected name token in argument list"
    /\ tokenIter < Len(tokens) /\ lastRead = tokenIter
    /\ tokens[tokenIter].type = "Name"
    /\ \E k \in 3..(tokenIter - 1) : tokens[k] = Token("Paren", <<"(">>)

(***************************************************************************)
(* Properties of TransformLispAstToCppAst and of LispAst::Visit (checked   *)
(* under SpecParse: the trees are the ones Parse produces).                *)
(***************************************************************************)
LispIds == 1..Len(lispNodes)
CppIds == 1..Len(cppNodes)
IsLispCall(l) == lispNodes[l].type = "CallExpressionNode"
KidSet(nodes, n) == { nodes[n].kids[j] : j \in 1..Len(nodes[n].kids) }

\* The node that owns l (0 for the root).
LispParent(l) ==
    IF \E p \in LispIds : l \in KidSet(lispNodes, p)
      THEN CHOOSE p \in LispIds : l \in KidSet(lispNodes, p)
      ELSE 0

\* The Transformer's Visit is over and its tree is about to be returned.
TransformComplete == pc = "TransformReturn"
\* TransformLispAstToCppAst has returned to Compile.
TransformReturned == pc \in {"PrintCppAst", "Done"}

\* Cpp node c is the expression of an ExpressionStatement.
Wrapped(c) ==
    \E e \in CppIds : /\ cppNodes[e].type = "ExpressionStatementNode"
                      /\ cppNodes[e].expression = c

\* C4: in the tree the transform returns, the Cpp CallExpression made for a
\* Lisp CallExpression is wrapped in an ExpressionStatement if and only if the
\* Lisp node's parent is the Program; every element of the Program body is an
\* ExpressionStatement holding a CallExpression, and no parameter of a
\* CallExpression is an ExpressionStatement.
C4_WrappedIffTopLevel ==
    TransformComplete =>
        /\ \A l \in LispIds : IsLispCall(l) =>
               /\ l \in DOMAIN m_context
               /\ cppNodes[m_context[l]].type = "CallExpressionNode"
               /\ Wrapped(m_context[l]) <=> (LispParent(l) = lispAst)
        /\ cppNodes[m_programNode].type = "ProgramNode"
        /\ \A b \in KidSet(cppNodes, m_programNode) :
               /\ cppNodes[b].type = "ExpressionStatementNode"
               /\ cppNodes[b].expression \in CppIds
               /\ cppNodes[cppNodes[b].expression].type = "CallExpressionNode"
        /\ \A c \in CppIds : cppNodes[c].type = "CallExpressionNode" =>
               \A q \in KidSet(cppNodes, c) :
                   cppNodes[q].type \in {"CallExpressionNode", "NumberLiteralNode"}

\* The transform is complete on a tree with a top-level call that has a
\* nested call among its parameters.
C4_Witness ==
    /\ TransformComplete
    /\ \E l \in LispIds : /\ IsLispCall(l) /\ LispParent(l) # lispAst
                          /\ ~Wrapped(m_context[l])
    /\ \E l \in LispIds : IsLispCall(l) /\ LispParent(l) = lispAst /\ Wrapped(m_context[l])

\* Number of nodes of the Lisp tree below and including l.
RECURSIVE LispCount(_)
RECURSIVE LispCountAll(_)
LispCountAll(ids) == IF ids = <<>> THEN 0 ELSE LispCount(Head(ids)) + LispCountAll(Tail(ids))
LispCount(l) == 1 + LispCountAll(lispNodes[l].kids)

\* Number of nodes of the Cpp tree below and including c, of every type.
RECURSIVE CppCount(_)
RECURSIVE CppCountAll(_)
CppCountAll(ids) == IF ids = <<>> THEN 0 ELSE CppCount(Head(ids)) + CppCountAll(Tail(ids))
CppCount(c) ==
    1 + (IF cppNodes[c].callee # 0 THEN CppCount(cppNodes[c].callee) ELSE 0)
      + (IF cppNodes[c].expression # 0 THEN CppCount(cppNodes[c].expression) ELSE 0)
      + CppCountAll(cppNodes[c].kids)

TopLevelCalls == Len(lispNodes[lispAst].kids)
LispCalls == Cardinality({ l \in LispIds : IsLispCall(l) })

\* C5 as stated: the Cpp tree has as many nodes as the Lisp tree plus one per
\* top-level call expression.
C5_NodeCountPlusTopLevel ==
    TransformReturned => CppCount(cppAst) = LispCount(lispAst) + TopLevelCalls

\* C5 as amended: the transform of a parsed tree never fails, and the Cpp
\* tree has as many nodes as the Lisp tree, plus one ExpressionStatement per
\* top-level call expression, plus one Identifier per call expression.
C5_NodeCountWithIdentifiers ==
    /\ pc # "Aborted"
    /\ TransformReturned =>
           /\ cppAst # 0
           /\ CppCount(cppAst) = LispCount(lispAst) + TopLevelCalls + LispCalls

\* The transform has returned the tree of a program with a nested call and
\* a call with two parameters.
C5_Witness ==
    /\ TransformReturned
    /\ TopLevelCalls >= 1
    /\ LispCalls > TopLevelCalls
    /\ \E l \in LispIds : IsLispCall(l) /\ Len(lispNodes[l].kids) >= 2

\* Cpp expression c is the image of Lisp expression l.
RECURSIVE Image(_, _)
Image(l, c) ==
    IF lispNodes[l].type = "NumberLiteralNode"
      THEN /\ cppNodes[c].type = "NumberLiteralNode"
           /\ cppNodes[c].value = lispNodes[l].value
      ELSE /\ cppNodes[c].type = "CallExpressionNode"
           /\ cppNodes[c].callee \in CppIds
           /\ cppNodes[cppNodes[c].callee].type = "IdentifierNode"
           /\ cppNodes[cppNodes[c].callee].name = lispNodes[l].name
           /\ Len(cppNodes[c].kids) = Len(lispNodes[l].kids)
           /\ \A j \in 1..Len(lispNodes[l].kids) :
                  Image(lispNodes[l].kids[j], cppNodes[c].kids[j])

\* C9: the tree the transform returns is the Lisp tree up to statement
\* wrapping: the i-th body element wraps the image of the i-th top-level
\* call; a call's image has an Identifier callee with the call's name and, as
\* j-th parameter, the image of the call's j-th parameter; a number's image
\* is a NumberLiteral with the same value.
C9_Isomorphic ==
    TransformReturned =>
        /\ cppNodes[cppAst].type = "ProgramNode"
        /\ Len(cppNodes[cppAst].kids) = Len(lispNodes[lispAst].kids)
        /\ \A k \in 1..Len(lispNodes[lispAst].kids) :
               LET b == cppNodes[cppAst].kids[k] IN
               /\ cppNodes[b].type = "ExpressionStatementNode"
               /\ cppNodes[b].expression \in CppIds
               /\ Image(lispNodes[lispAst].kids[k], cppNodes[b].expression)

\* The transform has returned the tree of a call whose parameters are two
\* different numbers with a nested call between or beside them.
C9_Witness ==
    /\ TransformReturned
    /\ \E l \in LispIds :
         /\ IsLispCall(l)
         /\ \E q \in KidSet(lispNodes, l) : IsLispCall(q)
         /\ \E q, r \in KidSet(lispNodes, l) :
                /\ ~IsLispCall(q) /\ ~IsLispCall(r)
                /\ lispNodes[q].value # lispNodes[r].value

\* The nodes of the Lisp tree below and including l.
RECURSIVE Subtree(_)
Subtree(l) == {l} \cup UNION { Subtree(q) : q \in KidSet(lispNodes, l) }

\* The nodes whose OnVisit was called before the k-th call.
VisitedBefore(k) == { visited[j].node : j \in 1..(k - 1) }

\* The siblings stored before l in its parent's vector.
EarlierSiblings(l) ==
    IF LispParent(l) = 0 THEN {}
    ELSE LET kids == lispNodes[LispParent(l)].kids IN
         { kids[r] : r \in { r \in 1..Len(kids) : \E q \in (r + 1)..Len(kids) : kids[q] = l } }

\* The outermost Visit has returned.
VisitOver == pc \in {"Transform", "TransformReturn", "PrintCppAst", "Done"}

\* C10: Visit calls OnVisit in depth-first pre-order: no node twice, and all
\* of them once Visit has returned; the root first, with no parent and depth
\* 0; every other node with its actual parent, after the parent's call and
\* one level deeper, and after the calls for the whole subtree of each of
\* its earlier siblings.
C10_PreOrder ==
    /\ \A j, k \in 1..Len(visited) : j < k => visited[j].node # visited[k].node
    /\ \A k \in 1..Len(visited) :
         LET v == visited[k] IN
         IF v.node = lispAst
           THEN k = 1 /\ v.parent = 0 /\ v.depth = 0 /\ lispNodes[v.node].type = "ProgramNode"
           ELSE /\ v.parent = LispParent(v.node)
                /\ \E j \in 1..(k - 1) :
                       visited[j].node = v.parent /\ v.depth = visited[j].depth + 1
                /\ \A sib \in EarlierSiblings(v.node) : Subtree(sib) \subseteq VisitedBefore(k)
    /\ VisitOver => VisitedBefore(Len(visited) + 1) = LispIds

\* A Visit has returned from a tree in which a call with a parameter of its
\* own is followed by a sibling.
C10_Witness ==
    /\ VisitOver
    /\ \E l \in LispIds : /\ lispNodes[l].kids # <<>>
                          /\ LispParent(l) # 0
                          /\ \E q \in LispIds : q # l /\ l \in EarlierSiblings(q)

(***************************************************************************)
(* Properties of Compile (checked under Spec).                             *)
(***************************************************************************)
\* The target-language text of a Cpp expression: a number's decimal digits;
\* a call's callee name, "(", its parameters separated by ", ", ")".
RECURSIVE Rendered(_)
RECURSIVE RenderedParams(_)
RenderedParams(ids) ==
    IF ids = <<>> THEN <<>>
    ELSE IF Len(ids) = 1 THEN Rendered(ids[1])
    ELSE Rendered(ids[1]) \o <<",", " ">> \o RenderedParams(Tail(ids))
Rendered(c) ==
    IF cppNodes[c].type = "NumberLiteralNode" THEN ItoA(cppNodes[c].value)
    ELSE cppNodes[cppNodes[c].callee].name \o <<"(">>
         \o RenderedParams(cppNodes[c].kids) \o <<")">>

\* needle occurs in hay as a contiguous run.
Contains(hay, needle) ==
    \E o \in 0..(Len(hay) - Len(needle)) : SubSeq(hay, o + 1, o + Len(needle)) = needle

\* C8: when Compile has run to its end, the text it has written contains,
\* for every top-level call, the call rendered in the target language
\* followed by the statement terminator.
C8_GeneratesTargetText ==
    pc = "Done" =>
        \A b \in KidSet(cppNodes, cppAst) :
            Contains(out, Rendered(cppNodes[b].expression) \o <<";">>)

(***************************************************************************)
(* Properties of the Transformer's construction context (SpecParse).       *)
(***************************************************************************)
\* The Transformer's Visit is running.
Transforming == pc = "Visit" /\ visitor = "Transformer"

\* The next step is an OnVisit(CallExpressionNode) or OnVisit(NumberLiteralNode)
\* of the Transformer: it looks up the parent of the node in m_context.
AtLookup ==
    /\ Transforming /\ visitStack # <<>>
    /\ Top(visitStack).idx = 0
    /\ lispNodes[Top(visitStack).node].type # "ProgramNode"

\* The position of l in the vector of its parent.
PositionOf(l) ==
    CHOOSE j \in 1..Len(lispNodes[LispParent(l)].kids) : lispNodes[LispParent(l)].kids[j] = l

\* The Cpp node made for Lisp node l, found by position in the Cpp tree:
\* the Program for the root; otherwise the element at l's position in the
\* vector of its parent's node, unwrapped from its ExpressionStatement.
RECURSIVE TargetOf(_)
TargetOf(l) ==
    IF LispParent(l) = 0 THEN m_programNode
    ELSE LET e == cppNodes[TargetOf(LispParent(l))].kids[PositionOf(l)] IN
         IF cppNodes[e].type = "ExpressionStatementNode" THEN cppNodes[e].expression ELSE e

\* C11: during the transform of a tree produced by Parse no assert fails;
\* when a CallExpression or NumberLiteral callback is about to look up its
\* parent, the parent is registered in m_context, and its entry is the Cpp
\* node that was made for that parent; no entry is removed or changed while
\* the Visit runs; and the callback appends its new node to that entry.
C11_LookupsSucceed ==
    [][ /\ pc' # "Aborted"
        /\ AtLookup =>
              LET parent == Top(visitStack).parent IN
              /\ ContextFound(m_context, parent)
              /\ m_context[parent] = TargetOf(parent)
              /\ Len(cppNodes'[m_context[parent]].kids)
                     = Len(cppNodes[m_context[parent]].kids) + 1
        /\ (Transforming /\ pc' = "Visit") =>
              \A l \in DOMAIN m_context :
                  l \in DOMAIN m_context' /\ m_context'[l] = m_context[l] ]_vars

\* The Transformer has appended a parameter to the node of a nested call,
\* found through m_context, and is still running.
C11_Witness ==
    /\ Transforming
    /\ \E l \in DOMAIN m_context :
         /\ IsLispCall(l) /\ LispParent(l) # lispAst
         /\ cppNodes[m_context[l]].kids # <<>>
         /\ m_context[l] = TargetOf(l)

(***************************************************************************)
(* Termination of Tokenize (checked under Spec).                           *)
(***************************************************************************)
\* The index at the start of each loop iteration so far, then the index now.
Indexes == Append(iterations, i)

\* Iteration k left the index unchanged.
Stalled(k) == Indexes[k + 1] = Indexes[k]

\* C12: the character index never decreases; no three consecutive loop
\* iterations leave it unchanged; the loop has run at most 3 * text.size()
\* iterations; and as long as Tokenize has neither returned nor thrown, it
\* can take its next step.
C12_TokenizeTerminates ==
    /\ \A k \in 1..Len(iterations) : Indexes[k] <= Indexes[k + 1]
    /\ \A k \in 1..(Len(iterations) - 2) : ~(Stalled(k) /\ Stalled(k + 1) /\ Stalled(k + 2))
    /\ Len(iterations) <= 3 * Len(text)
    /\ i <= Len(text) + 1
    /\ pc = "Tokenize" => ENABLED TokenizeNext

\* Tokenize has returned after two consecutive iterations that left the
\* index unchanged, and after more than twice as many iterations as the
\* text has characters.
C12_Witness ==
    /\ TokenizeReturned
    /\ \E k \in 1..(Len(iterations) - 1) : Stalled(k) /\ Stalled(k + 1)
    /\ Len(iterations) > 2 * Len(text)

====
